---------------------------- MODULE Spec2Model ----------------------------
(***************************************************************************)
(* Model of .vscode/tools/setup_vscode.py: the script that rewrites the   *)
(* workspace settings from a template and copies the launch template.     *)
(*                                                                         *)
(* Documents, paths and file contents are strings, handled character by   *)
(* character with Len, SubSeq and \o, as the script handles them with re  *)
(* and str.  A file is a record [exists, text].                            *)
(***************************************************************************)
EXTENDS Naturals, Sequences, FiniteSets, TLC

VARIABLES
    fs,                 \* the file system: the five files the script touches
    pc,                 \* position of main()
    orbit_path,         \* args.orbit_path of the current run
    isaacsim_path,      \* main's local isaacsim_path
    settings_template,  \* main's local settings_template
    ws_settings,        \* argument of overwrite_python_default_interpreter_path
    settings,           \* main's local settings
    err,                \* the exception that ended the run ("" for none)
    old,                \* history: the two output files as the run started
    after_first         \* history: a run has ended before the current one

vars == <<fs, pc, orbit_path, isaacsim_path, settings_template, ws_settings,
          settings, err, old, after_first>>

---------------------------------------------------------------------------
(* Strings *)

CharAt(s, i) == SubSeq(s, i, i)

\* s[i:] of Python, for a 1-based i
From(s, i) == SubSeq(s, i, Len(s))

\* s.startswith(t, i-1)
StartsAt(s, t, i) ==
    /\ i >= 1
    /\ i + Len(t) - 1 <= Len(s)
    /\ SubSeq(s, i, i + Len(t) - 1) = t

\* 1 + s.find(t, from-1): the least position >= from where t occurs, 0 for none
Find(s, t, from) ==
    LET n == Len(t)
        hits == {i \in from..(Len(s) - n + 1) : SubSeq(s, i, i + n - 1) = t}
    IN  IF hits = {} THEN 0 ELSE CHOOSE i \in hits : \A j \in hits : i <= j

Contains(s, t) == Find(s, t, 1) # 0

\* str.isspace for one character
Whitespace == {" ", "\t", "\n", "\r", "\f"}

RECURSIVE LStrip(_, _)
LStrip(s, chars) ==
    IF Len(s) > 0 /\ CharAt(s, 1) \in chars THEN LStrip(From(s, 2), chars) ELSE s

RECURSIVE RStrip(_, _)
RStrip(s, chars) ==
    IF Len(s) > 0 /\ CharAt(s, Len(s)) \in chars
    THEN RStrip(SubSeq(s, 1, Len(s) - 1), chars)
    ELSE s

\* s.strip() and s.strip(chars)
Strip(s, chars) == RStrip(LStrip(s, chars), chars)

\* s.split(sep), sep not empty: a sequence of strings
RECURSIVE Split(_, _)
Split(s, sep) ==
    LET i == Find(s, sep, 1)
    IN  IF i = 0 THEN <<s>>
        ELSE <<SubSeq(s, 1, i - 1)>> \o Split(From(s, i + Len(sep)), sep)

\* sep.join(parts)
RECURSIVE Join(_, _)
Join(sep, parts) ==
    IF parts = <<>> THEN ""
    ELSE IF Len(parts) = 1 THEN parts[1]
    ELSE parts[1] \o sep \o Join(sep, Tail(parts))

\* posixpath.join(a, b)
OsPathJoin(a, b) ==
    IF StartsAt(b, "/", 1) THEN b
    ELSE IF a = "" \/ CharAt(a, Len(a)) = "/" THEN a \o b
    ELSE a \o "/" \o b

---------------------------------------------------------------------------
(* re: the two patterns the script uses, re.search and re.sub *)

\* re.escape(key + value) at line 45: the text itself, matched literally
LiteralPattern(t) == [kind |-> "literal", text |-> t]

\* r"\"python.analysis.extraPaths\": \[.*?\]" with re.DOTALL, lines 76 and 89:
\* the two dots of the key are not escaped and match any character
ExtraPathsPattern == [kind |-> "extraPaths"]

\* Position of the last character of the match of p that starts at i, 0 for no
\* match there.  Neither pattern matches the empty string.
MatchEnd(p, s, i) ==
    IF p.kind = "literal"
    THEN IF StartsAt(s, p.text, i) THEN i + Len(p.text) - 1 ELSE 0
    ELSE IF /\ StartsAt(s, "\"python", i)
            /\ i + 7 <= Len(s)
            /\ StartsAt(s, "analysis", i + 8)
            /\ i + 16 <= Len(s)
            /\ StartsAt(s, "extraPaths\": [", i + 17)
         THEN Find(s, "]", i + 31)     \* .*? then \] : the first "]" after "["
         ELSE 0

\* 1 + re.search(p, s[from-1:]).start(), 0 for None: the leftmost match.  Both
\* patterns begin with a double quote, so only those positions are tried.
Search(p, s, from) ==
    LET hits == {i \in from..Len(s) : SubSeq(s, i, i) = "\"" /\ MatchEnd(p, s, i) # 0}
    IN  IF hits = {} THEN 0 ELSE CHOOSE i \in hits : \A j \in hits : i <= j

ASCII_LETTERS ==
    {"a","b","c","d","e","f","g","h","i","j","k","l","m","n","o","p","q","r",
     "s","t","u","v","w","x","y","z","A","B","C","D","E","F","G","H","I","J",
     "K","L","M","N","O","P","Q","R","S","T","U","V","W","X","Y","Z"}

DIGITS == {"0","1","2","3","4","5","6","7","8","9"}

OCTDIGITS == {"0","1","2","3","4","5","6","7"}

\* sre_parse.ESCAPES restricted to the characters a TLA+ string can hold; \a, \b
\* and \v give control characters and have no entry here
ESCAPES == [c \in {"n", "t", "r", "f", "\\"} |->
              CASE c = "n" -> "\n" [] c = "t" -> "\t" [] c = "r" -> "\r"
                [] c = "f" -> "\f" [] c = "\\" -> "\\"]

BadTemplate == [ok |-> FALSE, text |-> ""]

RECURSIVE AllZeros(_)
AllZeros(name) ==
    name = "" \/ (CharAt(name, 1) = "0" /\ AllZeros(From(name, 2)))

\* The replacement template of re.sub (sre_parse.parse_template and
\* expand_template) from position i on, for a pattern without groups and a
\* match m: [ok, text], ok FALSE for re.error.  Text up to the next backslash
\* is literal.  An escape that gives a control character (\a, \b, \v, octal)
\* has no arm: such a template is not modelled.
RECURSIVE ExpandFrom(_, _, _)
ExpandFrom(repl, i, m) ==
    LET k == Find(repl, "\\", i)
    IN  IF k = 0 THEN [ok |-> TRUE, text |-> From(repl, i)]
        ELSE IF k = Len(repl) THEN BadTemplate      \* bad escape (end of pattern)
        ELSE LET c == CharAt(repl, k + 1)
                 close == Find(repl, ">", k + 3)
                 name == SubSeq(repl, k + 3, close - 1)
                 isoctal == /\ k + 3 <= Len(repl)
                            /\ c \in OCTDIGITS
                            /\ CharAt(repl, k + 2) \in OCTDIGITS
                            /\ CharAt(repl, k + 3) \in OCTDIGITS
                 Keep(t, next) ==
                     LET rest == ExpandFrom(repl, next, m)
                     IN  IF ~rest.ok THEN BadTemplate
                         ELSE [ok |-> TRUE, text |-> SubSeq(repl, i, k - 1) \o t \o rest.text]
             IN  CASE c = "g" ->
                        IF ~StartsAt(repl, "<", k + 2) THEN BadTemplate   \* missing <
                        ELSE IF close = 0 \/ close = k + 3 THEN BadTemplate
                        ELSE IF AllZeros(name) THEN Keep(m, close + 1)  \* group 0
                        ELSE BadTemplate      \* unknown or invalid group
                   [] c \in DIGITS \ {"0"} /\ ~isoctal ->
                        BadTemplate           \* invalid group reference
                   [] c \in DOMAIN ESCAPES -> Keep(ESCAPES[c], k + 2)
                   [] c \in ASCII_LETTERS \ {"g", "n", "t", "r", "f", "a", "b", "v"} ->
                        BadTemplate           \* bad escape
                   [] c \notin ASCII_LETTERS \cup DIGITS \cup {"\\"} ->
                        Keep("\\" \o c, k + 2)

Expand(repl, m) == ExpandFrom(repl, 1, m)

\* mutant: re.sub with count = 1
SubFirstOnly(p, repl, s, from) ==
    LET i == Search(p, s, from)
        e == MatchEnd(p, s, i)
    IN  IF i = 0 THEN From(s, from)
        ELSE SubSeq(s, from, i - 1) \o Expand(repl, SubSeq(s, i, e)).text \o From(s, e + 1)

RECURSIVE SubFrom(_, _, _, _)
SubFrom(p, repl, s, from) ==
    LET i == Search(p, s, from)
        e == MatchEnd(p, s, i)
    IN  IF i = 0 THEN From(s, from)
        ELSE SubSeq(s, from, i - 1) \o Expand(repl, SubSeq(s, i, e)).text
               \o SubFrom(p, repl, s, e + 1)

\* re.sub(p, repl, s) with count = 0: the template is parsed first, then every
\* non-overlapping match, left to right, is replaced.  [ok, text].
ReSub(p, repl, s) ==
    IF ~Expand(repl, "").ok THEN BadTemplate
    ELSE [ok |-> TRUE, text |-> SubFrom(p, repl, s, 1)]

---------------------------------------------------------------------------
(* The script's functions *)

\* pathlib.Path(__file__).parents[2]: the directory that holds .vscode/tools
WS_DIR == "/ws"

settings_template_path ==
    OsPathJoin(OsPathJoin(OsPathJoin(WS_DIR, ".vscode"), "tools"), "settings.template.json")

settings_path == OsPathJoin(OsPathJoin(WS_DIR, ".vscode"), "settings.json")

launch_path == OsPathJoin(OsPathJoin(WS_DIR, ".vscode"), "launch.json")

launch_template_path ==
    OsPathJoin(OsPathJoin(OsPathJoin(WS_DIR, ".vscode"), "tools"), "launch.template.json")

isaacsim_vscode_filename(isaac_sim_dir) ==
    OsPathJoin(OsPathJoin(isaac_sim_dir, ".vscode"), "settings.json")

NoFile == [exists |-> FALSE, text |-> ""]

FileOf(text) == [exists |-> TRUE, text |-> text]

\* os.path.exists(path)
Exists(path) == path \in DOMAIN fs /\ fs[path].exists

default_python_interpreter_key == "\"python.defaultInterpreterPath\": "

default_python_interpreter_value == "\"${env:ORBIT_PATH}/_isaac_sim/python.sh\""

new_interpreter_path(isaac_sim_dir) ==
    default_python_interpreter_key \o "\"" \o OsPathJoin(isaac_sim_dir, "python.sh") \o "\""

\* [ok, text]: ok FALSE when re.sub raises re.error
overwrite_python_default_interpreter_path(ws, isaac_sim_dir) ==
    ReSub(LiteralPattern(default_python_interpreter_key \o default_python_interpreter_value),
          new_interpreter_path(isaac_sim_dir), ws)

extra_paths_key == "\"python.analysis.extraPaths\": ["

\* lines 76-79: the text between the key and the first "]" of the first match
\* in the isaac-sim settings (the match is known to exist)
ExtractList(vscode_settings) ==
    LET i == Search(ExtraPathsPattern, vscode_settings, 1)
        group0 == SubSeq(vscode_settings, i, MatchEnd(ExtraPathsPattern, vscode_settings, i))
        parts == Split(group0, extra_paths_key)
    IN  Split(parts[Len(parts)], "]")[1]

\* lines 82-84: the entries, trimmed, the empty ones dropped, each under the
\* isaac-sim directory and quoted
PathNames(list, isaac_sim_dir) ==
    LET raw == Split(list, ",")
        trimmed == [k \in 1..Len(raw) |-> Strip(Strip(raw[k], Whitespace), {"\""})]
        kept == SelectSeq(trimmed, LAMBDA x : Len(x) > 0)
    IN  [k \in 1..Len(kept) |-> "\"" \o isaac_sim_dir \o "/" \o kept[k] \o "\""]

\* lines 85 and 90: the replacement text ("\t".expandtabs(4) is four spaces)
ExtraPathsReplacement(path_names) ==
    extra_paths_key \o "\n        " \o Join(",\n        ", path_names) \o "\n    ]"

\* lines 72-96, the isaac-sim settings file being there.  [err, text]: err
\* names the exception raised, "" for a normal return.
ReadAndReplace(ws, isaac_sim_dir) ==
    LET vscode_settings == fs[isaacsim_vscode_filename(isaac_sim_dir)].text
        r == ReSub(ExtraPathsPattern,
                   ExtraPathsReplacement(PathNames(ExtractList(vscode_settings), isaac_sim_dir)),
                   ws)
    IN  IF Search(ExtraPathsPattern, vscode_settings, 1) = 0
        THEN [err |-> "AttributeError", text |-> ""]    \* None.group(0), line 77
        ELSE IF ~r.ok THEN [err |-> "re.error", text |-> ""]
        ELSE [err |-> "", text |-> r.text]

\* mutant: a missing isaac-sim settings file is tolerated and the template is
\* returned as it is
overwrite_python_analysis_extra_paths_lenient(ws, isaac_sim_dir) ==
    IF ~Exists(isaacsim_vscode_filename(isaac_sim_dir))
    THEN [err |-> "", text |-> ws]
    ELSE ReadAndReplace(ws, isaac_sim_dir)

\* lines 68-96
overwrite_python_analysis_extra_paths(ws, isaac_sim_dir) ==
    IF ~Exists(isaacsim_vscode_filename(isaac_sim_dir))
    THEN [err |-> "FileNotFoundError", text |-> ""]
    ELSE ReadAndReplace(ws, isaac_sim_dir)

\* mutant: the f prefix of the last header line is lost
header_msg_no_src(src) ==
    "// This file is a template and is automatically generated by the setup_vscode.py script.\n"
    \o "// Do not edit this file directly.\n"
    \o "// \n"
    \o "// Generated from: {src}\n"

header_msg(src) ==
    "// This file is a template and is automatically generated by the setup_vscode.py script.\n"
    \o "// Do not edit this file directly.\n"
    \o "// \n"
    \o "// Generated from: " \o src \o "\n"

---------------------------------------------------------------------------
(* Inputs: the command line and the files a run may find *)

MaxFrags == 2       \* settings fragments in a template
MaxEntries == 2     \* entries in the isaac-sim extraPaths list

\* --orbit_path: a POSIX installation path, or a Windows-style one
OrbitPaths == {"/opt/orbit", "C:\\orbit"}

NoArg == [given |-> FALSE, path |-> ""]       \* args.orbit_path is None

Args == {NoArg} \cup {[given |-> TRUE, path |-> q] : q \in OrbitPaths}

IsaacDir(q) == OsPathJoin(q, "_isaac_sim")

AllPaths ==
    {settings_template_path, launch_template_path, settings_path, launch_path}
    \cup {isaacsim_vscode_filename(IsaacDir(q)) : q \in OrbitPaths}

RECURSIVE Concat(_)
Concat(parts) == IF parts = <<>> THEN "" ELSE parts[1] \o Concat(Tail(parts))

ExtraPathsFrag == "    \"python.analysis.extraPaths\": [\n        \"old\"\n    ],\n"

InterpreterFrag ==
    "    " \o default_python_interpreter_key \o default_python_interpreter_value \o ",\n"

OtherInterpreterFrag ==
    "    " \o default_python_interpreter_key \o "\"/usr/bin/python3\",\n"

TemplateFrags == {ExtraPathsFrag, InterpreterFrag, OtherInterpreterFrag}

FragSeqs == UNION {[1..k -> TemplateFrags] : k \in 0..MaxFrags}

TemplateOf(f) == "{\n" \o Concat(f) \o "}\n"

\* settings.template.json: up to MaxFrags settings between braces
TemplateDocs == {TemplateOf(f) : f \in FragSeqs}

Entries == {"exts/a", "b"}

EntryLists == UNION {[1..k -> Entries] : k \in 0..MaxEntries}

Styles == {"lines", "inline"}

\* one entry per line with a trailing comma, or all on one line
ListText(es, style) ==
    IF style = "lines"
    THEN Concat([k \in 1..Len(es) |-> "\n        \"" \o es[k] \o "\","]) \o "\n    "
    ELSE Join(", ", [k \in 1..Len(es) |-> "\"" \o es[k] \o "\""])

IsaacDoc(es, style) ==
    "{\n    " \o extra_paths_key \o ListText(es, style) \o "],\n}\n"

\* _isaac_sim/.vscode/settings.json: a list of entries, no extraPaths setting,
\* or a key that differs from extraPaths only where the pattern has a dot
IsaacDocs ==
    {IsaacDoc(es, style) : es \in EntryLists, style \in Styles}
    \cup {"{\n}\n", "{\n    \"python-analysis.extraPaths\": [\"c\"],\n}\n"}

LaunchTemplateDoc == "{\n    \"version\": \"0.2.0\"\n}\n"

Init ==
    /\ \E tpl \in {NoFile} \cup {FileOf(d) : d \in TemplateDocs},
          ltpl \in {NoFile, FileOf(LaunchTemplateDoc)},
          isaac \in {NoFile} \cup {FileOf(d) : d \in IsaacDocs},
          q \in OrbitPaths,
          out \in {NoFile, FileOf("{}\n")},
          launch \in {NoFile, FileOf("// mine\n{}\n")} :
            fs = [f \in AllPaths |->
                    CASE f = settings_template_path -> tpl
                      [] f = launch_template_path -> ltpl
                      [] f = settings_path -> out
                      [] f = launch_path -> launch
                      [] OTHER -> IF f = isaacsim_vscode_filename(IsaacDir(q))
                                  THEN isaac ELSE NoFile]
    /\ pc = "idle"
    /\ orbit_path = NoArg
    /\ isaacsim_path = ""
    /\ settings_template = ""
    /\ ws_settings = ""
    /\ settings = ""
    /\ err = ""
    /\ old = [settings |-> NoFile, launch |-> NoFile]
    /\ after_first = FALSE

---------------------------------------------------------------------------
(* main(), one action per statement group *)

\* an exception leaves main: the process ends with what has been written so far
Raise(e) ==
    /\ pc' = "failed"
    /\ err' = e

\* lines 109-112: a run starts and parses its argument
ParseArgs ==
    /\ pc \in {"idle", "done", "failed"}
    /\ \E a \in Args : orbit_path' = a
    /\ pc' = "read_template"
    /\ err' = ""
    /\ isaacsim_path' = ""
    /\ settings_template' = ""
    /\ ws_settings' = ""
    /\ settings' = ""
    /\ old' = [settings |-> fs[settings_path], launch |-> fs[launch_path]]
    /\ after_first' = (pc # "idle")
    /\ UNCHANGED fs

\* lines 116-121
ReadTemplate ==
    /\ pc = "read_template"
    /\ IF ~Exists(settings_template_path)
       THEN Raise("FileNotFoundError") /\ UNCHANGED settings_template
       ELSE /\ settings_template' = fs[settings_template_path].text
            /\ pc' = "join"
            /\ UNCHANGED err
    /\ UNCHANGED <<fs, orbit_path, isaacsim_path, ws_settings, settings, old, after_first>>

\* line 124: os.path.join(None, ...) raises TypeError
JoinIsaacsimPath ==
    /\ pc = "join"
    /\ IF ~orbit_path.given
       THEN Raise("TypeError") /\ UNCHANGED isaacsim_path
       ELSE /\ isaacsim_path' = OsPathJoin(orbit_path.path, "_isaac_sim")
            /\ pc' = "extra_paths"
            /\ UNCHANGED err
    /\ UNCHANGED <<fs, orbit_path, settings_template, ws_settings, settings, old, after_first>>

\* line 125
OverwriteExtraPaths ==
    /\ pc = "extra_paths"
    /\ LET r == overwrite_python_analysis_extra_paths(settings_template, isaacsim_path)
       IN  IF r.err # ""
           THEN Raise(r.err) /\ UNCHANGED settings
           ELSE /\ settings' = r.text
                /\ pc' = "interpreter"
                /\ UNCHANGED err
    /\ UNCHANGED <<fs, orbit_path, isaacsim_path, settings_template, ws_settings, old, after_first>>

\* line 128
OverwriteInterpreter ==
    /\ pc = "interpreter"
    /\ ws_settings' = settings
    /\ LET r == overwrite_python_default_interpreter_path(settings, isaacsim_path)
       IN  IF ~r.ok
           THEN Raise("re.error") /\ UNCHANGED settings
           ELSE /\ settings' = r.text
                /\ pc' = "header"
                /\ UNCHANGED err
    /\ UNCHANGED <<fs, orbit_path, isaacsim_path, settings_template, old, after_first>>

\* line 131
AddHeader ==
    /\ pc = "header"
    /\ settings' = header_msg(settings_template_path) \o settings
    /\ pc' = "write"
    /\ UNCHANGED <<fs, orbit_path, isaacsim_path, settings_template, ws_settings, err, old, after_first>>

\* lines 133-136
WriteSettings ==
    /\ pc = "write"
    /\ fs' = [fs EXCEPT ![settings_path] = FileOf(settings)]
    /\ pc' = "launch"
    /\ UNCHANGED <<orbit_path, isaacsim_path, settings_template, ws_settings, settings, err, old, after_first>>

\* mutant: the destination is opened for writing before the template is read
CopyLaunchWriteFirst ==
    /\ pc = "launch"
    /\ IF Exists(launch_path)
       THEN pc' = "done" /\ UNCHANGED <<fs, err>>
       ELSE IF ~Exists(launch_template_path)
       THEN Raise("FileNotFoundError") /\ fs' = [fs EXCEPT ![launch_path] = FileOf("")]
       ELSE /\ fs' = [fs EXCEPT ![launch_path] =
                        FileOf(header_msg(launch_template_path) \o fs[launch_template_path].text)]
            /\ pc' = "done"
            /\ UNCHANGED err
    /\ UNCHANGED <<orbit_path, isaacsim_path, settings_template, ws_settings, settings, old, after_first>>

\* mutant: the launch file is copied whether or not it exists
CopyLaunchAlways ==
    /\ pc = "launch"
    /\ IF ~Exists(launch_template_path)
       THEN Raise("FileNotFoundError") /\ UNCHANGED fs
       ELSE /\ fs' = [fs EXCEPT ![launch_path] =
                        FileOf(header_msg(launch_template_path) \o fs[launch_template_path].text)]
            /\ pc' = "done"
            /\ UNCHANGED err
    /\ UNCHANGED <<orbit_path, isaacsim_path, settings_template, ws_settings, settings, old, after_first>>

\* lines 140-151: open() of a missing template raises FileNotFoundError
CopyLaunch ==
    /\ pc = "launch"
    /\ IF Exists(launch_path)
       THEN pc' = "done" /\ UNCHANGED <<fs, err>>
       ELSE IF ~Exists(launch_template_path)
       THEN Raise("FileNotFoundError") /\ UNCHANGED fs
       ELSE /\ fs' = [fs EXCEPT ![launch_path] =
                        FileOf(header_msg(launch_template_path) \o fs[launch_template_path].text)]
            /\ pc' = "done"
            /\ UNCHANGED err
    /\ UNCHANGED <<orbit_path, isaacsim_path, settings_template, ws_settings, settings, old, after_first>>

Next ==
    \/ ParseArgs
    \/ ReadTemplate
    \/ JoinIsaacsimPath
    \/ OverwriteExtraPaths
    \/ OverwriteInterpreter
    \/ AddHeader
    \/ WriteSettings
    \/ CopyLaunch

Spec == Init /\ [][Next]_vars

---------------------------------------------------------------------------
(* Where a run stands *)

Ended == pc \in {"done", "failed"}

\* the exception left overwrite_python_analysis_extra_paths (line 125)
RaisedInExtraPaths == pc = "failed" /\ isaacsim_path # "" /\ ws_settings = ""

\* the exception left overwrite_python_default_interpreter_path (line 128)
RaisedInInterpreter == pc = "failed" /\ ws_settings # "" /\ err = "re.error"

\* the exception left the open() of the launch template (line 145)
RaisedInCopyLaunch == pc = "failed" /\ ws_settings # "" /\ err = "FileNotFoundError"

\* line 136 has run in the current run
SettingsWritten == pc \in {"launch", "done"} \/ RaisedInCopyLaunch

\* the isaac-sim settings file of the current run (a base directory is given)
SecondaryPath == isaacsim_vscode_filename(IsaacDir(orbit_path.path))

DefaultPair == default_python_interpreter_key \o default_python_interpreter_value

\* the text holds the extraPaths key, literally, with a "]" somewhere after it
HasMarkerList(t) ==
    LET i == Find(t, extra_paths_key, 1)
    IN  i # 0 /\ Find(t, "]", i + Len(extra_paths_key)) # 0

---------------------------------------------------------------------------
(* Claims *)

\* C1: when a run with a base directory ends and the isaac-sim settings file
\* of that directory does not exist, the run has failed with FileNotFoundError
\* and the workspace settings file is what it was (or absent, as it was) when
\* the run started.
C1_MissingSecondaryFails ==
    (Ended /\ orbit_path.given /\ ~Exists(SecondaryPath))
        => /\ pc = "failed"
           /\ err = "FileNotFoundError"
           /\ fs[settings_path] = old.settings

\* a run that found its template, missed the isaac-sim settings and left an
\* existing settings file alone
C1_Witness ==
    /\ pc = "failed"
    /\ orbit_path.given
    /\ ~Exists(SecondaryPath)
    /\ Exists(settings_template_path)
    /\ old.settings.exists
    /\ RaisedInExtraPaths

\* some required input file of the run is missing
SomeInputMissing ==
    \/ ~Exists(settings_template_path)
    \/ ~Exists(launch_template_path)
    \/ ~Exists(SecondaryPath)

OutputsUntouched ==
    /\ fs[settings_path] = old.settings
    /\ fs[launch_path] = old.launch

\* C2 as stated: a run with a base directory in which any of the three input
\* files is missing ends in FileNotFoundError with neither output file created
\* or changed.
C2_NoPartialWrites ==
    (Ended /\ orbit_path.given /\ SomeInputMissing)
        => /\ pc = "failed"
           /\ err = "FileNotFoundError"
           /\ OutputsUntouched

\* C2 amended: a missing settings template, or a missing isaac-sim settings
\* file, ends the run in FileNotFoundError with both output files untouched.  A
\* missing launch template never lets the launch file be created, but it is
\* noticed only by the launch step: a FileNotFoundError of a run that had its
\* other two inputs comes from that step, with the launch file absent and the
\* workspace settings file already written.
C2_MissingInputs ==
    /\ (Ended /\ ~Exists(settings_template_path))
          => (pc = "failed" /\ err = "FileNotFoundError" /\ OutputsUntouched)
    /\ (Ended /\ orbit_path.given /\ ~Exists(SecondaryPath))
          => (pc = "failed" /\ err = "FileNotFoundError" /\ OutputsUntouched)
    /\ (Ended /\ ~Exists(launch_template_path))
          => fs[launch_path] = old.launch
    /\ (Ended /\ err = "FileNotFoundError" /\ orbit_path.given
          /\ Exists(settings_template_path) /\ Exists(SecondaryPath))
          => /\ ~Exists(launch_template_path)
             /\ ~old.launch.exists
             /\ fs[settings_path] = FileOf(settings)

\* the launch template is missed after the settings file has been rewritten
C2_Witness ==
    /\ pc = "failed"
    /\ err = "FileNotFoundError"
    /\ ~Exists(launch_template_path)
    /\ Exists(settings_template_path)
    /\ fs[settings_path] # old.settings

\* C3 as stated, second part: no run after the first changes the launch file.
C3_SameAsAfterFirstRun ==
    [][after_first => fs'[launch_path] = fs[launch_path]]_vars

\* C3 amended: a run that starts with the launch file present ends with that
\* file as it was, whatever it holds; so once the file exists no later run
\* changes it.  (A run may create it after an earlier run failed without it.)
C3_ExistingLaunchKept ==
    (Ended /\ old.launch.exists) => fs[launch_path] = old.launch

\* a completed later run that found a launch file which is not the stamped
\* template, with the template present
C3_Witness ==
    /\ pc = "done"
    /\ after_first
    /\ old.launch.exists
    /\ Exists(launch_template_path)
    /\ old.launch.text # header_msg(launch_template_path) \o fs[launch_template_path].text
    /\ fs[launch_path] = old.launch

\* the quoted entries es under directory b, as the extraPaths setting of a
\* template: one entry per line, eight spaces in, the bracket four spaces in
NewListFrag(es, b) ==
    "    " \o extra_paths_key \o "\n        "
    \o Join(",\n        ", [k \in 1..Len(es) |-> "\"" \o b \o "/" \o es[k] \o "\""])
    \o "\n    ],\n"

\* the interpreter setting of directory b
NewInterpreterFrag(b) ==
    "    " \o default_python_interpreter_key \o "\"" \o b \o "/python.sh\",\n"

\* the settings f with every frag, or only the first frag, replaced by new
ReplaceEvery(f, frag, new) == [k \in 1..Len(f) |-> IF f[k] = frag THEN new ELSE f[k]]

ReplaceFirst(f, frag, new) ==
    [k \in 1..Len(f) |->
        IF f[k] = frag /\ \A j \in 1..(k - 1) : f[j] # frag THEN new ELSE f[k]]

\* C4: when overwrite_python_analysis_extra_paths has been called with a
\* template that holds an extraPaths list and the isaac-sim settings list the
\* entries es (one or more), it has returned the template with each extraPaths
\* list replaced by the entries b/e1 .. b/en, in order, and the rest of the
\* template as it was.
C4_ListRelocated ==
    (pc = "interpreter" \/ RaisedInExtraPaths)
        => \A es \in EntryLists, style \in Styles, f \in FragSeqs :
              (/\ Len(es) >= 1
               /\ Exists(SecondaryPath)
               /\ fs[SecondaryPath].text = IsaacDoc(es, style)
               /\ settings_template = TemplateOf(f)
               /\ \E k \in 1..Len(f) : f[k] = ExtraPathsFrag)
                 => /\ pc = "interpreter"
                    /\ settings = TemplateOf(ReplaceEvery(f, ExtraPathsFrag,
                                                NewListFrag(es, isaacsim_path)))

\* the text that replaced the extraPaths lists, and the interpreter pairs, in
\* the current run
NewListText ==
    Expand(ExtraPathsReplacement(PathNames(ExtractList(fs[SecondaryPath].text),
                                           isaacsim_path)), "").text

NewPairText == Expand(new_interpreter_path(isaacsim_path), "").text

\* C5 as stated: after both substitution steps the template has its first
\* extraPaths list and its first default interpreter pair replaced, and every
\* later occurrence as it was.
C5_FirstOccurrenceOnly ==
    pc = "header"
        => \A f \in FragSeqs :
              settings_template = TemplateOf(f)
                => settings = TemplateOf(
                       ReplaceFirst(ReplaceFirst(f, ExtraPathsFrag, "    " \o NewListText \o ",\n"),
                                    InterpreterFrag, "    " \o NewPairText \o ",\n"))

\* C5 amended: a substitution step that returns has replaced every occurrence
\* of its pattern, each by the same new text; no later occurrence is left.
C5_EveryOccurrence ==
    pc = "header"
        => \A f \in FragSeqs :
              settings_template = TemplateOf(f)
                => settings = TemplateOf(
                       ReplaceEvery(ReplaceEvery(f, ExtraPathsFrag, "    " \o NewListText \o ",\n"),
                                    InterpreterFrag, "    " \o NewPairText \o ",\n"))

\* both steps have returned on a template with two extraPaths lists
C5_Witness ==
    /\ pc = "header"
    /\ settings_template = TemplateOf(<<ExtraPathsFrag, ExtraPathsFrag>>)
    /\ ~Contains(settings, ExtraPathsFrag)

\* C6: when overwrite_python_default_interpreter_path has been called with a
\* document that does not hold the default pair, it has returned, and returned
\* the document unchanged.
C6_NoPairUnchanged ==
    ((pc = "header" \/ RaisedInInterpreter) /\ ~Contains(ws_settings, DefaultPair))
        => (pc = "header" /\ settings = ws_settings)

\* C7: when overwrite_python_default_interpreter_path has been called with a
\* document that holds the default pair, it has returned a document that pairs
\* the key with b/python.sh, holds the default pair no longer, and is the
\* document with the pairs replaced and nothing else changed.
C7_PairReplaced ==
    ((pc = "header" \/ RaisedInInterpreter) /\ Contains(ws_settings, DefaultPair))
        => /\ pc = "header"
           /\ Contains(settings, default_python_interpreter_key \o "\""
                                    \o isaacsim_path \o "/python.sh\"")
           /\ ~Contains(settings, DefaultPair)
           /\ \A f \in FragSeqs :
                 settings_template = TemplateOf(f)
                   => settings = TemplateOf(
                          ReplaceEvery(ReplaceEvery(f, ExtraPathsFrag, "    " \o NewListText \o ",\n"),
                                       InterpreterFrag, NewInterpreterFrag(isaacsim_path)))

\* C8: a settings file the run has written, and a launch file the run has
\* created, is the four comment lines, the last naming the path of its
\* template, followed by the document: the settings as the interpreter step
\* returned them, or the text of the launch template.
C8_HeaderStamped ==
    /\ SettingsWritten
          => /\ StartsAt(fs[settings_path].text, "//", 1)
             /\ fs[settings_path].text =
                  "// This file is a template and is automatically generated by the setup_vscode.py script.\n"
                  \o "// Do not edit this file directly.\n// \n// Generated from: "
                  \o settings_template_path \o "\n"
                  \o overwrite_python_default_interpreter_path(ws_settings, isaacsim_path).text
    /\ (pc # "idle" /\ fs[launch_path] # old.launch)
          => /\ StartsAt(fs[launch_path].text, "//", 1)
             /\ fs[launch_path].text =
                  "// This file is a template and is automatically generated by the setup_vscode.py script.\n"
                  \o "// Do not edit this file directly.\n// \n// Generated from: "
                  \o launch_template_path \o "\n"
                  \o fs[launch_template_path].text

\* a run that wrote the settings file and created the launch file
C8_Witness ==
    /\ pc = "done"
    /\ fs[launch_path] # old.launch
    /\ fs[settings_path] # old.settings
    /\ Contains(fs[settings_path].text, settings_template_path)
    /\ Contains(fs[launch_path].text, launch_template_path)

\* C9: a run with a base directory whose template and isaac-sim settings exist
\* and hold the extraPaths key and list ends with the workspace settings file
\* written: the header followed by the transformed template.
C9_SettingsOverwritten ==
    (/\ Ended
     /\ orbit_path.given
     /\ Exists(settings_template_path)
     /\ Exists(SecondaryPath)
     /\ HasMarkerList(fs[settings_template_path].text)
     /\ HasMarkerList(fs[SecondaryPath].text))
        => /\ SettingsWritten
           /\ fs[settings_path].text =
                header_msg(settings_template_path)
                \o overwrite_python_default_interpreter_path(ws_settings, isaacsim_path).text

\* C10: isaac-sim settings that exist without the extraPaths key and list end
\* the run in AttributeError with the workspace settings file not written; with
\* the key and list there and only the template lacking them, the extraPaths
\* step returns the template unchanged.
C10_MarkerMissing ==
    /\ (/\ Ended
        /\ orbit_path.given
        /\ Exists(settings_template_path)
        /\ Exists(SecondaryPath)
        /\ ~HasMarkerList(fs[SecondaryPath].text))
          => /\ pc = "failed"
             /\ err = "AttributeError"
             /\ fs[settings_path] = old.settings
    /\ (/\ pc = "interpreter" \/ RaisedInExtraPaths
        /\ Exists(SecondaryPath)
        /\ HasMarkerList(fs[SecondaryPath].text)
        /\ ~HasMarkerList(settings_template))
          => /\ pc = "interpreter"
             /\ settings = settings_template

=============================================================================
